---- MODULE Spec2Model ----
(***************************************************************************)
(* Credit-metered API gateway (src/app.py): the key store                  *)
(* API_KEYS_STORAGE, the bounded request ledger REQUEST_LOGS_STORAGE and   *)
(* the six metered handlers /ffinfo /image /voice /qr /video /num.         *)
(*                                                                         *)
(* Handlers are asyncio coroutines on one event loop: a handler runs       *)
(* without interruption between two awaits.  Only number_service awaits    *)
(* (the downstream GET, line 352), so the five other handlers are one      *)
(* atomic step each and number_service is two: up to the await, and from   *)
(* the await's return (or exception) to the response.                      *)
(*                                                                         *)
(* Time is a logical clock `now`; datetime.utcnow() reads it and .date()   *)
(* is DateOf.  The successive utcnow() reads inside one uninterrupted      *)
(* stretch of a handler are taken at one instant.                          *)
(***************************************************************************)
EXTENDS Integers, Sequences, FiniteSets, TLC

VARIABLES API_KEYS_STORAGE, REQUEST_LOGS_STORAGE, now, requests, history

vars == <<API_KEYS_STORAGE, REQUEST_LOGS_STORAGE, now, requests, history>>

----------------------------------------------------------------------------
(* Bounds of the model *)

\* request slots of one run of the gateway
MaxReq == 2
\* largest starting balance of an account
MaxCredits == 6
\* last instant of the logical clock
MaxNow == 2
\* clock instants per UTC calendar day
TicksPerDay == 2
\* the burst scenario: starting balance, and largest number of parallel requests
BurstCredits == 5
MaxBurst == 6
\* appends made by the ledger scenario beyond the capacity
ExtraAppends == 3
\* largest daily_requests an account of the usage scenario starts with
MaxDaily == 3

----------------------------------------------------------------------------
(* Program constants *)

LogCapacity == 100
DefaultDailyLimit == 30
DefaultCredits == 50
ExpiryDays == 365

StoredKeys == {"k1", "k2"}
UnknownKey == "nokey"
AllKeys == StoredKeys \cup {UnknownKey}
Prompts == {"p"}
Endpoints == {"/ffinfo", "/image", "/voice", "/qr", "/video", "/num"}

\* the price list the root endpoint publishes
Cost(op) ==
  CASE op = "/image" -> 2
    [] op = "/video" -> 2
    [] op = "/voice" -> 1
    [] op = "/qr" -> 1
    [] op = "/num" -> 5
    [] op = "/ffinfo" -> 1

\* Optional[datetime]: <<>> is None, <<t>> is the instant t
None == <<>>
Some(t) == <<t>>

DateOf(t) == t \div TicksPerDay

----------------------------------------------------------------------------
(* Key store and ledger helpers *)

\* the account record init_storage builds for a key
NewAccount(id, key, credits, active, t) ==
  [ id |-> id,
    key |-> key,
    name |-> "Test Key",
    created_at |-> t,
    is_active |-> active,
    total_requests |-> 0,
    daily_requests |-> 0,
    daily_limit |-> DefaultDailyLimit,
    credits |-> credits,
    last_reset |-> t,
    last_used |-> None,
    expires_at |-> t + ExpiryDays * TicksPerDay ]

\* check_credits without the balance comparison
check_credits_nobalance(store, api_key, credits_needed) ==
  IF api_key \notin DOMAIN store THEN FALSE
  ELSE store[api_key].is_active

\* check_credits comparing with > in place of >=
check_credits_strict(store, api_key, credits_needed) ==
  IF api_key \notin DOMAIN store THEN FALSE
  ELSE IF ~store[api_key].is_active THEN FALSE
  ELSE store[api_key].credits > credits_needed

\* check_credits letting a balance one short of the price through
check_credits_lenient(store, api_key, credits_needed) ==
  IF api_key \notin DOMAIN store THEN FALSE
  ELSE IF ~store[api_key].is_active THEN FALSE
  ELSE store[api_key].credits >= credits_needed - 1

\* check_credits without the is_active test
check_credits_noactive(store, api_key, credits_needed) ==
  IF api_key \notin DOMAIN store THEN FALSE
  ELSE store[api_key].credits >= credits_needed

\* check_credits enforcing the daily limit as well
check_credits_dailylimit(store, api_key, credits_needed) ==
  IF api_key \notin DOMAIN store THEN FALSE
  ELSE IF ~store[api_key].is_active THEN FALSE
  ELSE IF store[api_key].daily_requests >= store[api_key].daily_limit THEN FALSE
  ELSE store[api_key].credits >= credits_needed

check_credits(store, api_key, credits_needed) ==
  IF api_key \notin DOMAIN store THEN FALSE
  ELSE IF ~store[api_key].is_active THEN FALSE
  ELSE store[api_key].credits >= credits_needed

\* use_credits with += in place of -=
use_credits_add(store, api_key, credits_used) ==
  IF api_key \in DOMAIN store
  THEN [store EXCEPT ![api_key].credits = @ + credits_used]
  ELSE store

use_credits(store, api_key, credits_used) ==
  IF api_key \in DOMAIN store
  THEN [store EXCEPT ![api_key].credits = @ - credits_used]
  ELSE store

\* the dict log_request appends
NewEntry(logs, api_key, endpoint, prompt, response_time, credits_used, t) ==
  [ id |-> Len(logs) + 1,
    api_key |-> api_key,
    endpoint |-> endpoint,
    prompt |-> prompt,
    response_time |-> response_time,
    credits_used |-> credits_used,
    created_at |-> t ]

\* log_request with pop() in place of pop(0): the newest entry is dropped
log_request_popnewest(logs, api_key, endpoint, prompt, response_time, credits_used, t) ==
  LET appended == Append(logs, NewEntry(logs, api_key, endpoint, prompt,
                                        response_time, credits_used, t))
  IN IF Len(appended) > LogCapacity
     THEN SubSeq(appended, 1, Len(appended) - 1)
     ELSE appended

log_request(logs, api_key, endpoint, prompt, response_time, credits_used, t) ==
  LET appended == Append(logs, NewEntry(logs, api_key, endpoint, prompt,
                                        response_time, credits_used, t))
  IN IF Len(appended) > LogCapacity THEN Tail(appended) ELSE appended

\* update_usage comparing the dates with <= in place of <
update_usage_sameday(store, api_key, t) ==
  IF api_key \in DOMAIN store
  THEN LET d == store[api_key]
           today == DateOf(t)
           rolled == DateOf(d.last_reset) <= today
       IN [store EXCEPT ![api_key] =
             [d EXCEPT !.total_requests = @ + 1,
                       !.daily_requests = IF rolled THEN 1 ELSE @ + 1,
                       !.last_used = Some(t),
                       !.last_reset = IF rolled THEN t ELSE @]]
  ELSE store

\* update_usage stamping last_used on every account of the store
update_usage_touchall(store, api_key, t) ==
  IF api_key \in DOMAIN store
  THEN LET rolled == DateOf(store[api_key].last_reset) < DateOf(t)
       IN [k \in DOMAIN store |->
             IF k = api_key
             THEN [store[k] EXCEPT
                     !.total_requests = @ + 1,
                     !.daily_requests = IF rolled THEN 1 ELSE @ + 1,
                     !.last_used = Some(t),
                     !.last_reset = IF rolled THEN t ELSE @]
             ELSE [store[k] EXCEPT !.last_used = Some(t)]]
  ELSE store

\* update_usage resetting daily_requests to 0 on a new day
update_usage_resetzero(store, api_key, t) ==
  IF api_key \in DOMAIN store
  THEN LET d == store[api_key]
           today == DateOf(t)
           rolled == DateOf(d.last_reset) < today
       IN [store EXCEPT ![api_key] =
             [d EXCEPT !.total_requests = @ + 1,
                       !.daily_requests = IF rolled THEN 0 ELSE @ + 1,
                       !.last_used = Some(t),
                       !.last_reset = IF rolled THEN t ELSE @]]
  ELSE store

update_usage(store, api_key, t) ==
  IF api_key \in DOMAIN store
  THEN LET d == store[api_key]
           today == DateOf(t)
           rolled == DateOf(d.last_reset) < today
       IN [store EXCEPT ![api_key] =
             [d EXCEPT !.total_requests = @ + 1,
                       !.daily_requests = IF rolled THEN 1 ELSE @ + 1,
                       !.last_used = Some(t),
                       !.last_reset = IF rolled THEN t ELSE @]]
  ELSE store

----------------------------------------------------------------------------
(* Requests *)

\* a request: where its handler stands (pc), its query parameters, the
\* handler's start_time while it is suspended, and its response: the HTTP
\* status, the number of credits the 402 detail names (required), and how the
\* downstream call ended (downstream)
IdleRequest ==
  [pc |-> "idle", op |-> "none", key |-> "none", prompt |-> "none",
   start_time |-> 0, status |-> 0, required |-> 0, downstream |-> "none"]

IssuedRequest(op, key, prompt) ==
  [IdleRequest EXCEPT !.pc = "issued", !.op = op, !.key = key, !.prompt = prompt]

\* slots are taken in order
NextIdle(r) ==
  /\ r \in DOMAIN requests
  /\ requests[r].pc = "idle"
  /\ \A q \in DOMAIN requests : q < r => requests[q].pc # "idle"

\* a request the server has received and whose handler has not started
Runnable(r, op) ==
  /\ r \in DOMAIN requests
  /\ requests[r].pc = "issued"
  /\ requests[r].op = op

\* no handler is suspended at its await
NoneAwaiting == \A q \in DOMAIN requests : requests[q].pc # "awaiting"

Done(r, op, key, prompt, status, named) ==
  requests' = [requests EXCEPT ![r] =
     [pc |-> "done", op |-> op, key |-> key, prompt |-> prompt,
      start_time |-> 0, status |-> status,
      required |-> IF status = 402 THEN named ELSE 0,
      downstream |-> "none"]]

\* the gate every handler opens with: 402 when check_credits fails, then the
\* key-validity test (401), else through
Gate(api_key, cost) ==
  IF ~check_credits(API_KEYS_STORAGE, api_key, cost) THEN 402
  ELSE IF api_key \notin DOMAIN API_KEYS_STORAGE THEN 401
  ELSE 200

\* "Deduct credits and log request": use_credits, update_usage, log_request
Charge(api_key, endpoint, prompt, response_time, used, logged) ==
  /\ API_KEYS_STORAGE' =
       update_usage(use_credits(API_KEYS_STORAGE, api_key, used), api_key, now)
  /\ REQUEST_LOGS_STORAGE' =
       log_request(REQUEST_LOGS_STORAGE, api_key, endpoint, prompt,
                   response_time, logged, now)
  /\ history' = Append(history,
                  NewEntry(REQUEST_LOGS_STORAGE, api_key, endpoint, prompt,
                           response_time, logged, now))

\* a handler without an await: gate, build the URL, charge, respond
Handler(r, op, api_key, prompt, checked, named, used, logged) ==
  LET status == Gate(api_key, checked)
  IN /\ Done(r, op, api_key, prompt, status, named)
     /\ IF status = 200
        THEN Charge(api_key, op, prompt, 0, used, logged)
        ELSE UNCHANGED <<API_KEYS_STORAGE, REQUEST_LOGS_STORAGE, history>>
     /\ UNCHANGED now

ffinfo_redirect(r, api_key, uid) ==
  Handler(r, "/ffinfo", api_key, uid, 1, 1, 1, 1)

\* image_generation deducting 3 credits and logging 2
image_generation_deduct3(r, api_key, prompt) ==
  Handler(r, "/image", api_key, prompt, 2, 2, 3, 2)

image_generation(r, api_key, prompt) ==
  Handler(r, "/image", api_key, prompt, 2, 2, 2, 2)

voice_generation(r, api_key, text) ==
  Handler(r, "/voice", api_key, text, 1, 1, 1, 1)

qr_generation(r, api_key, data) ==
  Handler(r, "/qr", api_key, data, 1, 1, 1, 1)

\* video_generation checking for 1 credit (the /voice price) and charging 2
video_generation_check1(r, api_key, prompt) ==
  Handler(r, "/video", api_key, prompt, 1, 2, 2, 2)

video_generation(r, api_key, prompt) ==
  Handler(r, "/video", api_key, prompt, 2, 2, 2, 2)

\* number_service with "Deduct credits and log request" placed before the
\* downstream call
number_service_begin_prepaid(r, api_key, mobile) ==
  LET status == Gate(api_key, 5)
  IN /\ requests' = [requests EXCEPT ![r] =
          [pc |-> IF status = 200 THEN "awaiting" ELSE "done",
           op |-> "/num", key |-> api_key, prompt |-> mobile,
           start_time |-> IF status = 200 THEN now ELSE 0,
           status |-> IF status = 200 THEN 0 ELSE status,
           required |-> IF status = 402 THEN 5 ELSE 0,
           downstream |-> "none"]]
     /\ IF status = 200
        THEN Charge(api_key, "/num", mobile, 0, 5, 5)
        ELSE UNCHANGED <<API_KEYS_STORAGE, REQUEST_LOGS_STORAGE, history>>
     /\ UNCHANGED now

\* number_service up to `await client.get(num_url)`
number_service_begin(r, api_key, mobile) ==
  LET status == Gate(api_key, 5)
  IN /\ requests' = [requests EXCEPT ![r] =
          [pc |-> IF status = 200 THEN "awaiting" ELSE "done",
           op |-> "/num", key |-> api_key, prompt |-> mobile,
           start_time |-> IF status = 200 THEN now ELSE 0,
           status |-> IF status = 200 THEN 0 ELSE status,
           required |-> IF status = 402 THEN 5 ELSE 0,
           downstream |-> "none"]]
     /\ UNCHANGED <<API_KEYS_STORAGE, REQUEST_LOGS_STORAGE, history, now>>

\* the await returns a 2xx response: charge and respond
number_service_return(r) ==
  /\ r \in DOMAIN requests
  /\ requests[r].pc = "awaiting"
  /\ Charge(requests[r].key, "/num", requests[r].prompt,
            now - requests[r].start_time, 5, 5)
  /\ requests' = [requests EXCEPT ![r].pc = "done", ![r].start_time = 0,
                                  ![r].status = 200,
                                  ![r].downstream = "ok"]
  /\ UNCHANGED now

\* number_service charging before the downstream call is known to have
\* succeeded: the failure is answered 500 and the charge stays
number_service_raise_charged(r) ==
  /\ r \in DOMAIN requests
  /\ requests[r].pc = "awaiting"
  /\ Charge(requests[r].key, "/num", requests[r].prompt,
            now - requests[r].start_time, 5, 5)
  /\ requests' = [requests EXCEPT ![r].pc = "done", ![r].start_time = 0,
                                  ![r].status = 500,
                                  ![r].downstream = "failed"]
  /\ UNCHANGED now

\* number_service calling the downstream service again after a failure
number_service_raise_retry(r) ==
  /\ r \in DOMAIN requests
  /\ requests[r].pc = "awaiting"
  /\ requests' = [requests EXCEPT ![r].downstream = "failed"]
  /\ UNCHANGED <<API_KEYS_STORAGE, REQUEST_LOGS_STORAGE, history, now>>

\* the await raises (timeout, connection error) or raise_for_status raises:
\* `except Exception` answers 500
number_service_raise(r) ==
  /\ r \in DOMAIN requests
  /\ requests[r].pc = "awaiting"
  /\ requests' = [requests EXCEPT ![r].pc = "done", ![r].start_time = 0,
                                  ![r].status = 500,
                                  ![r].downstream = "failed"]
  /\ UNCHANGED <<API_KEYS_STORAGE, REQUEST_LOGS_STORAGE, history, now>>

Tick ==
  /\ now < MaxNow
  /\ now' = now + 1
  /\ UNCHANGED <<API_KEYS_STORAGE, REQUEST_LOGS_STORAGE, requests, history>>

----------------------------------------------------------------------------
(* The gateway under concurrent requests *)

InitStores ==
  { [k \in StoredKeys |->
       IF k = "k1" THEN NewAccount(1, k, c, TRUE, 0)
                   ELSE NewAccount(2, k, MaxCredits, FALSE, 0)] :
    c \in 0..MaxCredits }

Init ==
  /\ API_KEYS_STORAGE \in InitStores
  /\ REQUEST_LOGS_STORAGE = <<>>
  /\ history = <<>>
  /\ now = 0
  /\ requests = [r \in 1..MaxReq |-> IdleRequest]

Next ==
  \/ Tick
  \/ \E r \in DOMAIN requests, k \in AllKeys, p \in Prompts :
       NextIdle(r) /\ ffinfo_redirect(r, k, p)
  \/ \E r \in DOMAIN requests, k \in AllKeys, p \in Prompts :
       NextIdle(r) /\ image_generation(r, k, p)
  \/ \E r \in DOMAIN requests, k \in AllKeys, p \in Prompts :
       NextIdle(r) /\ voice_generation(r, k, p)
  \/ \E r \in DOMAIN requests, k \in AllKeys, p \in Prompts :
       NextIdle(r) /\ qr_generation(r, k, p)
  \/ \E r \in DOMAIN requests, k \in AllKeys, p \in Prompts :
       NextIdle(r) /\ video_generation(r, k, p)
  \/ \E r \in DOMAIN requests, k \in AllKeys, p \in Prompts :
       NextIdle(r) /\ number_service_begin(r, k, p)
  \/ \E r \in DOMAIN requests : number_service_return(r)
  \/ \E r \in DOMAIN requests : number_service_raise(r)

Spec == Init /\ [][Next]_vars

----------------------------------------------------------------------------
(* Requests served one at a time: a handler starts only when none is       *)
(* suspended.                                                              *)

SerialNext ==
  \/ Tick
  \/ \E r \in DOMAIN requests, k \in AllKeys, p \in Prompts :
       NextIdle(r) /\ NoneAwaiting /\ ffinfo_redirect(r, k, p)
  \/ \E r \in DOMAIN requests, k \in AllKeys, p \in Prompts :
       NextIdle(r) /\ NoneAwaiting /\ image_generation(r, k, p)
  \/ \E r \in DOMAIN requests, k \in AllKeys, p \in Prompts :
       NextIdle(r) /\ NoneAwaiting /\ voice_generation(r, k, p)
  \/ \E r \in DOMAIN requests, k \in AllKeys, p \in Prompts :
       NextIdle(r) /\ NoneAwaiting /\ qr_generation(r, k, p)
  \/ \E r \in DOMAIN requests, k \in AllKeys, p \in Prompts :
       NextIdle(r) /\ NoneAwaiting /\ video_generation(r, k, p)
  \/ \E r \in DOMAIN requests, k \in AllKeys, p \in Prompts :
       NextIdle(r) /\ NoneAwaiting /\ number_service_begin(r, k, p)
  \/ \E r \in DOMAIN requests : number_service_return(r)
  \/ \E r \in DOMAIN requests : number_service_raise(r)

SpecSerial == Init /\ [][SerialNext]_vars

----------------------------------------------------------------------------
(* Claims *)

\* some request on key k has been answered with the given status
Answered(k, status) ==
  \E r \in DOMAIN requests :
    /\ requests[r].pc = "done"
    /\ requests[r].key = k
    /\ requests[r].status = status

\* C1: when requests are served one at a time, the credits of every account
\* are >= 0 after any sequence of metered requests, whatever the downstream
\* call of /num does.
C1_CreditsNonNegative ==
  \A k \in DOMAIN API_KEYS_STORAGE : API_KEYS_STORAGE[k].credits >= 0

\* C1's case: an account spent down to 0 by a served request, and a later
\* request on it turned away
C1_Witness ==
  \E k \in DOMAIN API_KEYS_STORAGE :
    /\ API_KEYS_STORAGE[k].credits = 0
    /\ API_KEYS_STORAGE[k].total_requests >= 1
    /\ Answered(k, 200)
    /\ Answered(k, 402)

\* C2: under any interleaving of in-flight requests on one key, with /num
\* suspended between its check and its deduction, no account's credits go
\* below 0.
C2_NoOverspend ==
  \A k \in DOMAIN API_KEYS_STORAGE : ~(API_KEYS_STORAGE[k].credits < 0)

----------------------------------------------------------------------------
(* A burst of parallel requests of one cost-1 operation on one key: the    *)
(* server has received them all before any handler runs.                   *)

CostOneOps == {"/voice", "/qr", "/ffinfo"}

BurstStore ==
  [k \in StoredKeys |->
     IF k = "k1" THEN NewAccount(1, k, BurstCredits, TRUE, 0)
                 ELSE NewAccount(2, k, MaxCredits, FALSE, 0)]

BurstInit ==
  /\ API_KEYS_STORAGE = BurstStore
  /\ REQUEST_LOGS_STORAGE = <<>>
  /\ history = <<>>
  /\ now = 0
  /\ \E n \in BurstCredits..MaxBurst, op \in CostOneOps :
       requests = [r \in 1..n |-> IssuedRequest(op, "k1", "p")]

BurstNext ==
  \/ \E r \in DOMAIN requests :
       Runnable(r, "/voice")
         /\ voice_generation(r, requests[r].key, requests[r].prompt)
  \/ \E r \in DOMAIN requests :
       Runnable(r, "/qr")
         /\ qr_generation(r, requests[r].key, requests[r].prompt)
  \/ \E r \in DOMAIN requests :
       Runnable(r, "/ffinfo")
         /\ ffinfo_redirect(r, requests[r].key, requests[r].prompt)

SpecBurst == BurstInit /\ [][BurstNext]_vars

AllDone == \A r \in DOMAIN requests : requests[r].pc = "done"

WithStatus(status) == {r \in DOMAIN requests : requests[r].status = status}

\* C3: N >= 5 parallel requests of a cost-1 operation on one active key that
\* starts with 5 credits end, in every order, with exactly 5 successes and
\* N - 5 responses 402, and the credits at 0.
C3_BurstOutcome ==
  AllDone =>
    /\ Cardinality(WithStatus(200)) = BurstCredits
    /\ Cardinality(WithStatus(402)) = Len(requests) - BurstCredits
    /\ API_KEYS_STORAGE["k1"].credits = 0

\* C3's case: a burst of more requests than credits, all answered
C3_Witness ==
  /\ AllDone
  /\ Len(requests) > BurstCredits
  /\ WithStatus(402) # {}
  /\ Len(REQUEST_LOGS_STORAGE) = BurstCredits

----------------------------------------------------------------------------
(* Claims about one request's step *)

\* request r's handler starts in this step: it runs its balance check
Starts(r) ==
  /\ requests[r].pc \in {"idle", "issued"}
  /\ requests'[r].pc \in {"awaiting", "done"}

\* request r is answered 200 in this step
Succeeds(r) ==
  /\ requests[r].pc # "done"
  /\ requests'[r].pc = "done"
  /\ requests'[r].status = 200

\* request r's downstream call fails in this step
DownstreamFails(r) ==
  /\ requests[r].downstream # "failed"
  /\ requests'[r].downstream = "failed"

C4_Rejects(r) ==
  LET k == requests'[r].key
      c == Cost(requests'[r].op)
  IN (/\ Starts(r)
      /\ k \in DOMAIN API_KEYS_STORAGE
      /\ API_KEYS_STORAGE[k].is_active
      /\ API_KEYS_STORAGE[k].credits < c)
     => /\ requests'[r].pc = "done"
        /\ requests'[r].status = 402
        /\ requests'[r].required = c
        /\ API_KEYS_STORAGE' = API_KEYS_STORAGE
        /\ REQUEST_LOGS_STORAGE' = REQUEST_LOGS_STORAGE

\* C4: a request of an operation of cost C on an active key whose credits are
\* below C when the handler checks is answered 402 naming C, and leaves the
\* accounts (credits, total_requests, daily_requests) and the ledger as they
\* were.
C4_InsufficientLeavesState ==
  [][\A r \in DOMAIN requests : C4_Rejects(r)]_vars

\* C4's case, the example: a cost-2 request served leaving 0 credits, then a
\* cost-1 request on the same key answered 402 naming 1
C4_Witness ==
  \E r1, r2 \in DOMAIN requests :
    /\ requests[r1].pc = "done" /\ requests[r2].pc = "done"
    /\ requests[r1].key = "k1" /\ requests[r2].key = "k1"
    /\ Cost(requests[r1].op) = 2 /\ requests[r1].status = 200
    /\ Cost(requests[r2].op) = 1 /\ requests[r2].status = 402
    /\ requests[r2].required = 1
    /\ API_KEYS_STORAGE["k1"].credits = 0
    /\ API_KEYS_STORAGE["k1"].total_requests = 1
    /\ Len(REQUEST_LOGS_STORAGE) = 1

C5_Charges(r) ==
  LET k == requests'[r].key
      op == requests'[r].op
      c == Cost(op)
      e == REQUEST_LOGS_STORAGE'[Len(REQUEST_LOGS_STORAGE')]
  IN Succeeds(r) =>
       /\ API_KEYS_STORAGE'[k].credits = API_KEYS_STORAGE[k].credits - c
       /\ API_KEYS_STORAGE'[k].total_requests =
            API_KEYS_STORAGE[k].total_requests + 1
       /\ Len(REQUEST_LOGS_STORAGE') >= 1
       /\ \/ REQUEST_LOGS_STORAGE' = Append(REQUEST_LOGS_STORAGE, e)
          \/ REQUEST_LOGS_STORAGE' = Tail(Append(REQUEST_LOGS_STORAGE, e))
       /\ e.api_key = k
       /\ e.endpoint = op
       /\ e.credits_used = c

\* C5: a request of an operation of cost C that is answered 200 changes, in
\* that one step, the key's credits by exactly -C and its total_requests by
\* exactly +1, and appends exactly one ledger entry, with the key, the
\* operation and credits_used = C.
C5_SuccessCharges ==
  [][\A r \in DOMAIN requests : C5_Charges(r)]_vars

\* C5's case: a /num request served after its downstream call returned, and
\* a request of another price served too
C5_Witness ==
  \E r1, r2 \in DOMAIN requests :
    /\ requests[r1].op = "/num" /\ requests[r1].status = 200
    /\ requests[r1].downstream = "ok"
    /\ requests[r2].op = "/image" /\ requests[r2].status = 200
    /\ Len(REQUEST_LOGS_STORAGE) = 2

C6_NoCharge(r) ==
  DownstreamFails(r) =>
    /\ requests'[r].pc = "done"
    /\ requests'[r].status = 500
    /\ API_KEYS_STORAGE' = API_KEYS_STORAGE
    /\ REQUEST_LOGS_STORAGE' = REQUEST_LOGS_STORAGE
    /\ history' = history

\* C6: when the downstream call of a request fails, the request is answered
\* 500 and deducts no credits, moves neither counter, sets neither last_used
\* nor last_reset, and appends no ledger entry.
C6_FailureLeavesState ==
  [][\A r \in DOMAIN requests : C6_NoCharge(r)]_vars

\* C6's case: a /num request that passed the balance check and whose
\* downstream call failed, on an account still untouched
C6_Witness ==
  \E r \in DOMAIN requests :
    /\ requests[r].op = "/num"
    /\ requests[r].downstream = "failed"
    /\ requests[r].status = 500
    /\ API_KEYS_STORAGE[requests[r].key].credits >= 5
    /\ API_KEYS_STORAGE[requests[r].key].total_requests = 0
    /\ API_KEYS_STORAGE[requests[r].key].last_used = None

\* C7: a request whose key is not in API_KEYS_STORAGE, or whose account is
\* not active, is answered 401 (never 402), for every operation and whatever
\* the account's credits.
C7_InvalidKeyIs401 ==
  \A r \in DOMAIN requests :
    (/\ requests[r].pc = "done"
     /\ \/ requests[r].key \notin DOMAIN API_KEYS_STORAGE
        \/ ~API_KEYS_STORAGE[requests[r].key].is_active)
    => requests[r].status = 401

----------------------------------------------------------------------------
(* The ledger alone: log_request applied more often than the ledger holds  *)
(* entries, by one caller whose n-th call logs the prompt n.               *)

LedgerInit ==
  /\ API_KEYS_STORAGE = BurstStore
  /\ REQUEST_LOGS_STORAGE = <<>>
  /\ history = <<>>
  /\ now = 0
  /\ \E op \in Endpoints, k \in AllKeys :
       requests = <<IssuedRequest(op, k, "p")>>

LedgerAppend ==
  LET q == requests[1]
      n == Len(history) + 1
  IN /\ n <= LogCapacity + ExtraAppends
     /\ REQUEST_LOGS_STORAGE' =
          log_request(REQUEST_LOGS_STORAGE, q.key, q.op, n, 0, Cost(q.op), now)
     /\ history' = Append(history,
                     NewEntry(REQUEST_LOGS_STORAGE, q.key, q.op, n, 0,
                              Cost(q.op), now))
     /\ UNCHANGED <<API_KEYS_STORAGE, now, requests>>

LedgerNext == LedgerAppend

SpecLedger == LedgerInit /\ [][LedgerNext]_vars

Min(a, b) == IF a < b THEN a ELSE b

\* C8: after n appends the ledger holds exactly the last min(n, 100) appended
\* entries in append order; its length never exceeds 100, and past capacity
\* each append evicts the single oldest entry (after the 101st append the
\* first entry is gone and the 2nd..101st remain in order).
C8_LedgerIsLastHundred ==
  LET n == Len(history)
      m == Min(n, LogCapacity)
  IN /\ Len(REQUEST_LOGS_STORAGE) = m
     /\ Len(REQUEST_LOGS_STORAGE) <= LogCapacity
     /\ REQUEST_LOGS_STORAGE = SubSeq(history, n - m + 1, n)

\* C8's case: the 101st append has evicted the first entry
C8_Witness ==
  /\ Len(history) = LogCapacity + 1
  /\ Len(REQUEST_LOGS_STORAGE) = LogCapacity
  /\ REQUEST_LOGS_STORAGE[1] = history[2]
  /\ REQUEST_LOGS_STORAGE[LogCapacity] = history[LogCapacity + 1]
  /\ \A i \in 1..Len(REQUEST_LOGS_STORAGE) :
       REQUEST_LOGS_STORAGE[i] # history[1]

\* C9: every append assigns an id one greater than the previous append's,
\* also after eviction has started; so no two entries of the ledger share an
\* id and ids strictly increase along it.
C9_SequentialIds ==
  /\ \A i \in 1..(Len(history) - 1) : history[i + 1].id = history[i].id + 1
  /\ \A i \in 1..(Len(REQUEST_LOGS_STORAGE) - 1) :
       REQUEST_LOGS_STORAGE[i].id < REQUEST_LOGS_STORAGE[i + 1].id

----------------------------------------------------------------------------
(* Usage counters over days: an account created at instant t0, that has    *)
(* served n /voice requests at t0, then takes further requests as the      *)
(* clock moves on.                                                         *)

RECURSIVE ServedStore(_, _, _)
\* the key store after k1, created at t0 with c credits, served n /voice
\* requests at t0
ServedStore(n, c, t0) ==
  IF n = 0
  THEN [k \in StoredKeys |->
          IF k = "k1" THEN NewAccount(1, k, c, TRUE, t0)
                      ELSE NewAccount(2, k, MaxCredits, FALSE, t0)]
  ELSE update_usage(use_credits(ServedStore(n - 1, c, t0), "k1", 1), "k1", t0)

RECURSIVE ServedLogs(_, _)
\* the ledger after those n requests
ServedLogs(n, t0) ==
  IF n = 0 THEN <<>>
  ELSE log_request(ServedLogs(n - 1, t0), "k1", "/voice", "p", 0, 1, t0)

UsageInit ==
  \E t0 \in 0..MaxNow, n \in 0..MaxDaily :
    /\ API_KEYS_STORAGE = ServedStore(n, MaxCredits + n, t0)
    /\ REQUEST_LOGS_STORAGE = ServedLogs(n, t0)
    /\ history = ServedLogs(n, t0)
    /\ now = t0
    /\ requests = [r \in 1..2 |-> IdleRequest]

SpecUsage == UsageInit /\ [][Next]_vars

C10_Counts(r) ==
  LET k == requests'[r].key
      before == API_KEYS_STORAGE[k]
      after == API_KEYS_STORAGE'[k]
      today == DateOf(now)
  IN Succeeds(r) =>
       /\ DateOf(before.last_reset) < today =>
            /\ after.daily_requests = 1
            /\ DateOf(after.last_reset) = today
       /\ DateOf(before.last_reset) = today =>
            /\ after.daily_requests = before.daily_requests + 1
            /\ after.last_reset = before.last_reset

\* C10: on a successful charge, if the date of last_reset is earlier than
\* today (UTC) then daily_requests becomes 1, whatever it was, and the date
\* of last_reset becomes today; if the date of last_reset is today then
\* daily_requests grows by 1 and last_reset stays as it was.
C10_DayRollover ==
  [][\A r \in DOMAIN requests : C10_Counts(r)]_vars

\* C10's case: an account used several times on an earlier day is charged on
\* a later day (daily_requests back to 1) and then once more that day
C10_Witness ==
  LET d == API_KEYS_STORAGE["k1"]
  IN /\ d.total_requests >= 4
     /\ d.daily_requests = 2
     /\ DateOf(d.created_at) < DateOf(now)
     /\ DateOf(d.last_reset) = DateOf(now)
     /\ Answered("k1", 200)

----------------------------------------------------------------------------
(* Claims about the order of a request's steps *)

\* this step charges: it changes an account or the ledger
ChargingStep ==
  \/ API_KEYS_STORAGE' # API_KEYS_STORAGE
  \/ REQUEST_LOGS_STORAGE' # REQUEST_LOGS_STORAGE
  \/ history' # history

\* request r's downstream call is started in this step
CallStarts(r) ==
  /\ requests[r].pc # "awaiting"
  /\ requests'[r].pc = "awaiting"

C11_Ordered ==
  /\ \A r \in DOMAIN requests :
       CallStarts(r) =>
         /\ requests[r].pc \in {"idle", "issued"}
         /\ check_credits(API_KEYS_STORAGE, requests'[r].key,
                          Cost(requests'[r].op))
  /\ ChargingStep =>
       \E r \in DOMAIN requests :
         /\ Succeeds(r)
         /\ requests'[r].op = "/num" =>
              /\ requests[r].pc = "awaiting"
              /\ requests'[r].downstream = "ok"
  /\ \A r \in DOMAIN requests :
       (requests[r].pc = "awaiting" /\ requests'[r].downstream # "ok")
         => ~ChargingStep \/ \E q \in DOMAIN requests : q # r /\ Succeeds(q)

\* C11: for every request the balance check comes before its downstream call
\* is started, and its deduction, usage update and ledger append come only
\* after that call has returned successfully: no step charges for a request
\* whose downstream call has not returned, or has failed.
C11_CheckCallCharge ==
  [][C11_Ordered]_vars

\* C11's case: a /num request charged after its call returned, while another
\* /num request that passed the check ended uncharged on a failed call
C11_Witness ==
  \E r1, r2 \in DOMAIN requests :
    /\ requests[r1].op = "/num" /\ requests[r1].downstream = "ok"
    /\ requests[r1].status = 200
    /\ requests[r2].op = "/num" /\ requests[r2].downstream = "failed"
    /\ requests[r1].key = requests[r2].key
    /\ API_KEYS_STORAGE[requests[r1].key].total_requests = 1
    /\ Len(history) = 1

----------------------------------------------------------------------------
(* Claims about keys *)

\* the key is absent from the store, or its account is not active
InvalidKey(k) ==
  \/ k \notin DOMAIN API_KEYS_STORAGE
  \/ ~API_KEYS_STORAGE[k].is_active

C12_Refused(r) ==
  (Starts(r) /\ InvalidKey(requests'[r].key)) =>
    /\ requests'[r].pc = "done"
    /\ requests'[r].status # 200
    /\ requests'[r].status >= 400
    /\ API_KEYS_STORAGE' = API_KEYS_STORAGE
    /\ REQUEST_LOGS_STORAGE' = REQUEST_LOGS_STORAGE
    /\ history' = history

\* C12: a request of any metered operation with a key that is absent from
\* API_KEYS_STORAGE or whose account is not active never succeeds, and leaves
\* every account and the ledger as they were, whatever the account's credits.
C12_InvalidKeyRefused ==
  [][\A r \in DOMAIN requests : C12_Refused(r)]_vars

\* C12's case: a request on an inactive account that holds enough credits,
\* and a request with an unknown key, both turned away
C12_Witness ==
  \E r1, r2 \in DOMAIN requests :
    /\ requests[r1].pc = "done" /\ requests[r2].pc = "done"
    /\ requests[r1].key \in DOMAIN API_KEYS_STORAGE
    /\ ~API_KEYS_STORAGE[requests[r1].key].is_active
    /\ API_KEYS_STORAGE[requests[r1].key].credits >= Cost(requests[r1].op)
    /\ requests[r1].status >= 400
    /\ requests[r2].key \notin DOMAIN API_KEYS_STORAGE
    /\ requests[r2].status >= 400
    /\ REQUEST_LOGS_STORAGE = <<>>

----------------------------------------------------------------------------
(* Claims about prices *)

C13_OnePrice(r) ==
  LET k == requests'[r].key
      c == Cost(requests'[r].op)
  IN /\ (Starts(r) /\ ~InvalidKey(k)) =>
          /\ (requests'[r].status = 402) <=> (API_KEYS_STORAGE[k].credits < c)
          /\ requests'[r].status = 402 => requests'[r].required = c
     /\ Succeeds(r) =>
          /\ API_KEYS_STORAGE[k].credits - API_KEYS_STORAGE'[k].credits = c
          /\ Len(history') = Len(history) + 1
          /\ history'[Len(history')].credits_used = c
          /\ history'[Len(history')].endpoint = requests'[r].op

\* C13: the price of each operation is the one of the table (image 2,
\* video 2, voice 1, qr 1, num 5, ffinfo 1), and for every operation the
\* amount the balance is checked against, the amount deducted and the
\* credits_used of the ledger entry are that same number.
C13_SamePriceThroughout ==
  [][\A r \in DOMAIN requests : C13_OnePrice(r)]_vars

\* C13's case: a /video request turned away at 1 credit, and a /num request
\* served from exactly 5
C13_Witness ==
  \E r1, r2 \in DOMAIN requests :
    /\ requests[r1].op = "/num" /\ requests[r1].status = 200
    /\ requests[r2].op = "/video" /\ requests[r2].status = 402
    /\ requests[r2].required = 2
    /\ requests[r1].key = requests[r2].key
    /\ \E i \in 1..Len(history) : history[i].credits_used = 5

----------------------------------------------------------------------------
(* The gateway as init_storage leaves it: the one default key, 50 credits,  *)
(* daily limit 30, and one client that sends the same request again after  *)
(* each response, all on one day.                                          *)

DefaultStore ==
  [k \in {"k1"} |-> NewAccount(1, k, DefaultCredits, TRUE, 0)]

DefaultInit ==
  /\ API_KEYS_STORAGE = DefaultStore
  /\ REQUEST_LOGS_STORAGE = <<>>
  /\ history = <<>>
  /\ now = 0
  /\ \E op \in Endpoints : requests = <<IssuedRequest(op, "k1", "p")>>

\* the client's next request, with the same parameters
ClientResend(r) ==
  /\ r \in DOMAIN requests
  /\ requests[r].pc = "done"
  /\ requests' = [requests EXCEPT ![r] =
       IssuedRequest(requests[r].op, requests[r].key, requests[r].prompt)]
  /\ UNCHANGED <<API_KEYS_STORAGE, REQUEST_LOGS_STORAGE, history, now>>

DefaultNext ==
  \/ \E r \in DOMAIN requests :
       Runnable(r, "/ffinfo")
         /\ ffinfo_redirect(r, requests[r].key, requests[r].prompt)
  \/ \E r \in DOMAIN requests :
       Runnable(r, "/image")
         /\ image_generation(r, requests[r].key, requests[r].prompt)
  \/ \E r \in DOMAIN requests :
       Runnable(r, "/voice")
         /\ voice_generation(r, requests[r].key, requests[r].prompt)
  \/ \E r \in DOMAIN requests :
       Runnable(r, "/qr")
         /\ qr_generation(r, requests[r].key, requests[r].prompt)
  \/ \E r \in DOMAIN requests :
       Runnable(r, "/video")
         /\ video_generation(r, requests[r].key, requests[r].prompt)
  \/ \E r \in DOMAIN requests :
       Runnable(r, "/num")
         /\ number_service_begin(r, requests[r].key, requests[r].prompt)
  \/ \E r \in DOMAIN requests : number_service_return(r)
  \/ \E r \in DOMAIN requests : number_service_raise(r)
  \/ \E r \in DOMAIN requests : ClientResend(r)

SpecDefault == DefaultInit /\ [][DefaultNext]_vars

\* request r's handler lets the request through its gate in this step
Authorized(r) ==
  \/ requests'[r].pc = "awaiting"
  \/ requests'[r].pc = "done" /\ requests'[r].status = 200

C14_Decides(r) ==
  LET k == requests'[r].key
      c == Cost(requests'[r].op)
  IN Starts(r) =>
       /\ Authorized(r) <=>
            (~InvalidKey(k) /\ API_KEYS_STORAGE[k].credits >= c)
       /\ (/\ ~InvalidKey(k)
           /\ API_KEYS_STORAGE[k].credits >= c
           /\ API_KEYS_STORAGE[k].daily_requests
                >= API_KEYS_STORAGE[k].daily_limit)
          => Authorized(r)

\* C14: whether a request is authorized depends only on the key being
\* present, is_active and credits >= cost, never on daily_requests or
\* daily_limit: a request on an active key with enough credits goes through
\* when daily_requests >= daily_limit (and so daily_requests > daily_limit is
\* reached with the default key: 50 credits, limit 30).
C14_DailyLimitNotEnforced ==
  [][\A r \in DOMAIN requests : C14_Decides(r)]_vars

\* C14's case: the default key past its daily limit on one day
C14_Witness ==
  /\ API_KEYS_STORAGE["k1"].daily_limit = DefaultDailyLimit
  /\ API_KEYS_STORAGE["k1"].daily_requests > API_KEYS_STORAGE["k1"].daily_limit
  /\ API_KEYS_STORAGE["k1"].credits >= 0
  /\ DateOf(API_KEYS_STORAGE["k1"].last_reset) = DateOf(now)
  /\ Answered("k1", 200)

----------------------------------------------------------------------------
(* Progress: the downstream GET is made with timeout=30.0, so the await of  *)
(* a suspended number_service ends (response, error or timeout) and the     *)
(* event loop resumes the handler.                                         *)

DownstreamEnds(r) == number_service_return(r) \/ number_service_raise(r)

SpecLive ==
  /\ Init
  /\ [][Next]_vars
  /\ \A r \in 1..MaxReq : WF_vars(DownstreamEnds(r))

C15_OneCallOneResponse(r) ==
  /\ requests[r].pc = "done" => requests'[r] = requests[r]
  /\ CallStarts(r) => requests[r].pc \in {"idle", "issued"}
  /\ (requests[r].pc = "awaiting" /\ requests'[r] # requests[r]) =>
       /\ requests'[r].pc = "done"
       /\ requests'[r].status \in {200, 500}
       /\ requests'[r].downstream = "failed" => requests'[r].status = 500
  /\ requests'[r].pc = "done" => requests'[r].status \in {200, 401, 402, 500}

\* C15: provided the downstream service eventually responds, fails or times
\* out, every started request eventually gets exactly one response (200, 401,
\* 402 or 500), and a request makes at most one downstream call: a failure or
\* timeout of the call ends the request with 500, without a second attempt.
C15_NoBlockNoRetry ==
  /\ \A r \in 1..MaxReq :
       (requests[r].pc = "awaiting") ~> (requests[r].pc = "done")
  /\ [][\A r \in DOMAIN requests : C15_OneCallOneResponse(r)]_vars

\* C15's case: two /num requests in flight together, one ended by a failed
\* call and answered 500, the other answered 200
C15_Witness ==
  \E r1, r2 \in DOMAIN requests :
    /\ requests[r1].op = "/num" /\ requests[r1].pc = "done"
    /\ requests[r1].downstream = "failed" /\ requests[r1].status = 500
    /\ requests[r2].op = "/num" /\ requests[r2].pc = "done"
    /\ requests[r2].downstream = "ok" /\ requests[r2].status = 200

----------------------------------------------------------------------------
(* Claims about what a request may change *)

\* the fields of an account no request writes
Fixed(d) ==
  <<d.key, d.id, d.name, d.is_active, d.daily_limit, d.created_at,
    d.expires_at>>

C16_Frame ==
  /\ DOMAIN API_KEYS_STORAGE' = DOMAIN API_KEYS_STORAGE
  /\ \A k \in DOMAIN API_KEYS_STORAGE :
       Fixed(API_KEYS_STORAGE'[k]) = Fixed(API_KEYS_STORAGE[k])
  /\ API_KEYS_STORAGE' # API_KEYS_STORAGE =>
       \E r \in DOMAIN requests :
         /\ Succeeds(r)
         /\ \A k \in DOMAIN API_KEYS_STORAGE :
              k # requests'[r].key => API_KEYS_STORAGE'[k] = API_KEYS_STORAGE[k]

\* C16: a metered request on key k changes at most the credits,
\* total_requests, daily_requests, last_used and last_reset of k's own
\* account, and the ledger; no step adds or removes a key, changes key, id,
\* name, is_active, daily_limit, created_at or expires_at of any account, or
\* changes another account; and the five fields change only in a step that
\* completes a successful request.
C16_RequestFrame ==
  [][C16_Frame]_vars

\* C16's case: k1 charged on a later day (all five fields written) while k2,
\* asked too, is as it was created
C16_Witness ==
  /\ API_KEYS_STORAGE["k1"].total_requests >= 1
  /\ API_KEYS_STORAGE["k1"].last_reset > 0
  /\ API_KEYS_STORAGE["k1"].last_used # None
  /\ API_KEYS_STORAGE["k2"] = NewAccount(2, "k2", MaxCredits, FALSE, 0)
  /\ Answered("k1", 200)
  /\ Answered("k2", 402)

----------------------------------------------------------------------------
(* Claims about the books *)

RECURSIVE Spent(_, _)
\* the sum of credits_used over the entries of h logged for key k
Spent(h, k) ==
  IF h = <<>> THEN 0
  ELSE (IF h[1].api_key = k THEN h[1].credits_used ELSE 0) + Spent(Tail(h), k)

\* the number of entries of h logged for key k
Logged(h, k) == Cardinality({i \in 1..Len(h) : h[i].api_key = k})

C17_StepConserves ==
  \A k \in DOMAIN API_KEYS_STORAGE :
    /\ API_KEYS_STORAGE[k].credits - API_KEYS_STORAGE'[k].credits
         = Spent(history', k) - Spent(history, k)
    /\ API_KEYS_STORAGE'[k].total_requests - API_KEYS_STORAGE[k].total_requests
         = Logged(history', k) - Logged(history, k)

\* C17: under every interleaving and for every key, the credits spent since
\* the start equal the sum of credits_used over all ledger entries ever
\* appended for the key (evicted ones included), and total_requests equals
\* the number of those entries: nothing is appended at the start, every step
\* moves both sides by the same amount, and no state shows a request's
\* deduction without its counter update and its ledger entry.
C17_CreditConservation ==
  /\ history = <<>>
  /\ [](\A k \in DOMAIN API_KEYS_STORAGE :
          API_KEYS_STORAGE[k].total_requests = Logged(history, k))
  /\ [][C17_StepConserves]_vars

\* C17's case: two requests on one key interleaved at the await of /num, the
\* account overdrawn, and both charges on the books
C17_Witness ==
  \E k \in DOMAIN API_KEYS_STORAGE :
    /\ API_KEYS_STORAGE[k].credits < 0
    /\ API_KEYS_STORAGE[k].total_requests = 2
    /\ Logged(history, k) = 2
    /\ Spent(history, k) > 5

C18_Bounds(d) ==
  /\ 0 <= d.daily_requests
  /\ d.daily_requests <= d.total_requests
  /\ d.total_requests >= 1 => d.daily_requests >= 1

\* C18: for every account, always 0 <= daily_requests <= total_requests,
\* total_requests never decreases, and once the account has served a
\* successful request daily_requests >= 1.
C18_CounterBounds ==
  /\ [](\A k \in DOMAIN API_KEYS_STORAGE : C18_Bounds(API_KEYS_STORAGE[k]))
  /\ [][\A k \in DOMAIN API_KEYS_STORAGE :
          API_KEYS_STORAGE'[k].total_requests
            >= API_KEYS_STORAGE[k].total_requests]_vars

\* C18's case: an account that served several requests on one day, charged
\* once on a later day: daily_requests is back to 1, below total_requests
C18_Witness ==
  LET d == API_KEYS_STORAGE["k1"]
  IN /\ d.daily_requests = 1
     /\ d.total_requests >= 3
     /\ DateOf(d.created_at) < DateOf(d.last_reset)
     /\ d.last_used = Some(d.last_reset)

====
